---- MODULE Spec2Model ----
(***************************************************************************)
(* serialrw.js: SerialReader and SerialWriter, a sequential binary         *)
(* decoder/encoder pair over ArrayBuffer/DataView.                         *)
(*                                                                         *)
(* Buffers are sequences of bytes (index i of the ArrayBuffer is element   *)
(* i + 1 of the sequence); the capacity of a buffer is its Len.            *)
(*                                                                         *)
(* JavaScript numbers handed to the varint writer are kept as              *)
(* <<neg, hi, lo>>: hi and lo are the two 16-bit halves of the number's    *)
(* 32-bit pattern (what ToUint32 gives) and neg = 1 iff the number itself  *)
(* is negative.  Values the reader returns are int32 and fit an integer.   *)
(***************************************************************************)
EXTENDS Integers, Sequences, FiniteSets, TLC

VARIABLES
    \* SerialWriter
    wpos,       \* this.pos
    wbuf,       \* this.dv.buffer
    wstatus,    \* outcome of the last writer call: "none", "ok", "RangeError", "TypeError"
    wstore,     \* the last store into a DataView/Uint8Array: where it went
    wlog,       \* history: the seed bytes followed by every byte handed to a store
    whist,      \* history: the writer calls made, in order
    wseed,      \* the constructor's argument: given or not, and its bytes
    \* extraction
    out,        \* the last value returned by SerialWriter.getBuffer()
    outHist,    \* history: whist when out was taken
    \* SerialReader
    ralive,     \* a reader has been constructed
    rbuf,       \* this.dv.buffer
    rpos,       \* this.pos
    rstart,     \* the constructor's pos argument
    rstatus,    \* outcome of the last reader call
    rval,       \* value returned by the last reader call, as a sequence
    rhist,      \* history: the reader calls made, in order
    rsrc        \* history: the writer calls that produced rbuf, or raw for a given buffer

vars == <<wpos, wbuf, wstatus, wstore, wlog, whist, wseed, out, outHist,
          ralive, rbuf, rpos, rstart, rstatus, rval, rhist, rsrc>>
wvars == <<wpos, wbuf, wstatus, wstore, wlog, whist, wseed>>
rvars == <<ralive, rbuf, rpos, rstart, rstatus, rval, rhist, rsrc>>

----------------------------------------------------------------------------
(* Bounds of the exploration *)

MaxWrites == 2      \* writer calls of any kind per writer
MaxRun == 9         \* length of a byte-at-a-time run of wu8 calls
MaxReads == 2       \* reader calls per reader
MaxSrcOps == 1      \* writer calls behind a buffer that is handed to a reader

----------------------------------------------------------------------------
(* Arithmetic of the host language *)

Max(a, b) == IF a >= b THEN a ELSE b
Min(a, b) == IF a <= b THEN a ELSE b

Min32 == -2147483647 - 1

\* a non-negative integer below 2^31 as a JavaScript number
OfNat(k) == <<0, k \div 65536, k % 65536>>

RECURSIVE BitLen(_)
BitLen(k) == IF k = 0 THEN 0 ELSE 1 + BitLen(k \div 2)

\* number of significant bits of the 32-bit pattern
BitLength(n) == IF n[2] > 0 THEN 16 + BitLen(n[2]) ELSE BitLen(n[3])

IsPow2(n) ==
    \/ n[2] = 0 /\ n[3] > 0 /\ 2 ^ (BitLen(n[3]) - 1) = n[3]
    \/ n[3] = 0 /\ n[2] > 0 /\ 2 ^ (BitLen(n[2]) - 1) = n[2]

\* (n >>> s) & 0x7F for 0 <= s < 32
Shr7F(n, s) ==
    IF s < 16
    THEN ((n[2] % 128) * 2 ^ (16 - s) + (n[3] \div 2 ^ s)) % 128
    ELSE (n[2] \div 2 ^ (s - 16)) % 128

\* int32 (n << 7) | b for an int32 n and 0 <= b < 128
Shl7Or(n, b) ==
    LET low == n % 33554432
    IN IF low < 16777216 THEN low * 128 + b
       ELSE (((low - 16777216) * 128 + b) - 2147483647) - 1

\* (n & ~1) >>> 1 for an int32 n: the uint32 pattern of n shifted right once
ClearShr1(n) == IF n >= 0 THEN n \div 2 ELSE ((n \div 2) + 2147483647) + 1

\* (Math.abs(n) << 1) | (n < 0 ? 1 : 0) for an integer n in [-2^31, 2^31 - 1]
SignPack(n) ==
    LET s == IF n < 0 THEN 1 ELSE 0
        a == IF n = Min32 THEN <<32768, 0>>
             ELSE LET m == IF n < 0 THEN -n ELSE n IN <<m \div 65536, m % 65536>>
        lo == (2 * a[2] + s) % 65536
        hi == (2 * a[1] + ((2 * a[2]) \div 65536)) % 65536
    IN <<IF hi >= 32768 THEN 1 ELSE 0, hi, lo>>

\* ArrayBuffer.prototype.slice(begin, end)
slice(buf, begin, end) ==
    LET len == Len(buf)
        first == IF begin < 0 THEN Max(len + begin, 0) ELSE Min(begin, len)
        final == IF end < 0 THEN Max(len + end, 0) ELSE Min(end, len)
        newLen == Max(final - first, 0)
    IN [i \in 1..newLen |-> buf[first + i]]

\* big-endian bytes of a non-negative integer below 2^31
RECURSIVE BigEndian(_, _)
BigEndian(v, width) ==
    IF width = 0 THEN <<>>
    ELSE Append(BigEndian(v \div 256, width - 1), v % 256)

RECURSIVE FromBigEndian(_)
FromBigEndian(bs) ==
    IF bs = <<>> THEN 0
    ELSE FromBigEndian(SubSeq(bs, 1, Len(bs) - 1)) * 256 + bs[Len(bs)]

----------------------------------------------------------------------------
(* SerialWriter.  A writer in the middle of a call is a record             *)
(*   pos, buf : this.pos, this.dv.buffer                                   *)
(*   id       : identity of this.dv (changes when allocMin replaces it)    *)
(*   err      : the exception that ended the call, "none" while it runs    *)
(*   store    : the last store attempted, log: every byte handed to one    *)

InitialCapacity == 8

NoStore == [off |-> 0, width |-> 0, cap |-> 0, current |-> TRUE]

\* constructor(buffer)
WriterNew(seed) ==
    IF ~seed.given
    THEN [pos |-> 0, buf |-> [i \in 1..InitialCapacity |-> 0]]
    ELSE [pos |-> Len(seed.bytes), buf |-> slice(seed.bytes, 0, Len(seed.bytes))]

\* allocMin(length)
allocMin(w, length) ==
    IF length >= Len(w.buf)
    THEN LET cap == Max(length, Len(w.buf) * 2)
         IN [w EXCEPT !.buf = [i \in 1..cap |-> IF i <= Len(w.buf) THEN w.buf[i] ELSE 0],
                      !.id = w.id + 1]
    ELSE w

\* allocMinExtra(additionalLength)
allocMinExtra(w, additionalLength) == allocMin(w, w.pos + additionalLength)

\* delayedMove without its this.pos += move
wDelayedMoveNoAdvance(w, move) ==
    [w |-> allocMin(w, w.pos + move), saved |-> w.pos]

\* delayedMove(move): the writer afterwards and the position returned
wDelayedMove(w, move) ==
    [w |-> allocMin([w EXCEPT !.pos = w.pos + move], w.pos + move), saved |-> w.pos]

\* DataView.prototype.setUint8/16/32 called on the DataView dv (its buffer and
\* identity) with byte offset off: a RangeError when the bytes do not fit dv,
\* otherwise the bytes land in dv's buffer, which is the writer's only when
\* dv is still this.dv
dvSet(w, dv, off, bytes) ==
    LET st == [off |-> off, width |-> Len(bytes), cap |-> Len(dv.buf),
               current |-> dv.id = w.id]
        w1 == [w EXCEPT !.store = st, !.log = w.log \o bytes]
    IN IF off + Len(bytes) > Len(dv.buf)
       THEN [w1 EXCEPT !.err = "RangeError"]
       ELSE IF dv.id = w.id
       THEN [w1 EXCEPT !.buf = [i \in 1..Len(w.buf) |->
                                 IF i > off /\ i <= off + Len(bytes)
                                 THEN bytes[i - off] ELSE w.buf[i]]]
       ELSE w1

\* wi8..wu32, wf32, wf64: this.dv.setX(this.delayedMove(width), n).  The
\* receiver this.dv is evaluated before the argument this.delayedMove(width).
wFixed(w, bytes) ==
    IF w.err # "none" THEN w
    ELSE LET dv == [buf |-> w.buf, id |-> w.id]
             m == wDelayedMove(w, Len(bytes))
         IN dvSet(m.w, dv, m.saved, bytes)

\* wi64, wu64: DataView has no setInt64/setUint64; the argument
\* this.delayedMove(8) is evaluated before the call of undefined throws
w64(w) ==
    IF w.err # "none" THEN w
    ELSE [wDelayedMove(w, 8).w EXCEPT !.err = "TypeError"]

wu8(w, n) == wFixed(w, <<n % 256>>)

\* Math.ceil(Math.log2(n) / 7) as the first value of i + 1 in wuv's loop;
\* log2 of a negative number is NaN and log2(0) is -Infinity, and with either
\* the loop condition i >= 0 is false at once, as with 0.  log2 is exact on
\* powers of two and strictly between e and e + 1 otherwise.
byteLength(n) ==
    IF n[1] = 1 \/ (n[2] = 0 /\ n[3] = 0) THEN 0
    ELSE LET e == BitLength(n) - 1
         IN IF IsPow2(n) THEN (e + 6) \div 7 ELSE (e \div 7) + 1

\* the loop of wuv from index i down to 0
RECURSIVE wuvLoop(_, _, _)
wuvLoop(w, n, i) ==
    IF i < 0 \/ w.err # "none" THEN w
    ELSE LET byte == Shr7F(n, (i * 7) % 32) + (IF i # 0 THEN 128 ELSE 0)
         IN wuvLoop(wu8(w, byte), n, i - 1)

\* wuv(n)
wuv(w, n) == wuvLoop(w, n, byteLength(n) - 1)

\* wiv(n)
wiv(w, n) == wuv(w, SignPack(n))

\* wbytes(buffer)
wbytes(w, buffer) ==
    LET w1 == wuv(w, OfNat(Len(buffer)))
        w2 == allocMinExtra(w1, Len(buffer))
        st == [off |-> w2.pos, width |-> Len(buffer), cap |-> Len(w2.buf),
               current |-> TRUE]
        w3 == [w2 EXCEPT !.store = st, !.log = w2.log \o buffer]
    IN IF w1.err # "none" THEN w1
       ELSE IF w2.pos + Len(buffer) > Len(w2.buf)
       THEN [w3 EXCEPT !.err = "RangeError"]
       ELSE [w3 EXCEPT !.buf = [i \in 1..Len(w2.buf) |->
                                 IF i > w2.pos /\ i <= w2.pos + Len(buffer)
                                 THEN buffer[i - w2.pos] ELSE w2.buf[i]],
                       !.pos = w2.pos + Len(buffer)]

\* getBuffer returning the whole backing store instead of [0, pos)
getBufferWhole(pos, buf) == slice(buf, 0, Len(buf))

\* getBuffer()
getBuffer(pos, buf) == slice(buf, 0, pos)

----------------------------------------------------------------------------
(* SerialReader.  A reader in the middle of a call is a record             *)
(*   pos, buf : this.pos, this.dv.buffer                                   *)
(*   err      : the exception that ended the call, "none" while it runs    *)
(*   val      : the value the call returns                                 *)
(*   need     : the bytes the call asked for so far (its width)            *)

\* constructor(buffer, pos): this.pos = pos || 0
ReaderNew(buffer, pos) == [buf |-> buffer, pos |-> pos]

\* delayedMove(move): the reader afterwards and the position returned
rDelayedMove(rd, move) ==
    [rd |-> [rd EXCEPT !.pos = rd.pos + move, !.need = rd.need + move], saved |-> rd.pos]

\* ru8, ru16: this.dv.getUintN(this.delayedMove(width)); DataView throws a
\* RangeError when the bytes are not all inside the buffer
rFixed(rd, width) ==
    IF rd.err # "none" THEN rd
    ELSE LET m == rDelayedMove(rd, width)
         IN IF m.saved < 0 \/ m.saved + width > Len(rd.buf)
            THEN [m.rd EXCEPT !.err = "RangeError"]
            ELSE [m.rd EXCEPT !.val = <<FromBigEndian(SubSeq(rd.buf, m.saved + 1,
                                                            m.saved + width))>>]

\* ri64, ru64: DataView has no getInt64/getUint64; the argument
\* this.delayedMove(8) is evaluated before the call of undefined throws
r64(rd) ==
    IF rd.err # "none" THEN rd
    ELSE [rDelayedMove(rd, 8).rd EXCEPT !.err = "TypeError"]

ru8(rd) == rFixed(rd, 1)

\* the loop of ruv with accumulator n
RECURSIVE ruvLoop(_, _)
ruvLoop(rd, n) ==
    LET r1 == ru8(rd)
        byte == r1.val[1]
        n1 == Shl7Or(n, byte % 128)
    IN IF r1.err # "none" THEN r1
       ELSE IF byte < 128 THEN [r1 EXCEPT !.val = <<n1>>]
       ELSE ruvLoop(r1, n1)

\* ruv()
ruv(rd) == ruvLoop(rd, 0)

\* riv()
riv(rd) ==
    LET r1 == ruv(rd)
        n == r1.val[1]
        sign == IF n % 2 = 1 THEN -1 ELSE 1
    IN IF r1.err # "none" THEN r1
       ELSE [r1 EXCEPT !.val = <<ClearShr1(n) * sign>>]

\* rbytes(): this.dv.buffer.slice(this.pos, this.pos += length)
rbytes(rd) ==
    LET r1 == ruv(rd)
        length == r1.val[1]
    IN IF r1.err # "none" THEN r1
       ELSE [r1 EXCEPT !.val = slice(rd.buf, r1.pos, r1.pos + length),
                       !.pos = r1.pos + length,
                       !.need = r1.need + length,
                       !.len = length]

\* rutf8(): this.rarr is not a method of SerialReader
rutf8(rd) == [rd EXCEPT !.err = "TypeError"]

----------------------------------------------------------------------------
(* Inputs the caller is taken to supply *)

ByteSamples == {1, 255}
U16Samples == {32769}
U32Samples == {16909060}
UVSamples == {<<0, 0, 0>>, <<0, 0, 1>>, <<0, 0, 127>>, <<0, 0, 128>>, <<0, 0, 300>>,
              <<0, 0, 16383>>, <<0, 0, 16384>>, <<0, 31, 65535>>, <<0, 32, 0>>,
              <<0, 32768, 0>>, <<0, 65535, 65535>>}
IVSamples == {0, 1, -1, -5, 64, 536870912, 1073741824, -1073741824,
              2147483647, Min32}
RunSamples == {<<>>, <<7>>, <<9, 0>>, [i \in 1..127 |-> i], [i \in 1..128 |-> i - 1]}
SeedSamples == {<<>>, <<1, 2, 3>>}
RawSamples == {<<>>, <<5, 1>>, <<128>>, <<2, 7, 9, 4>>, <<129, 0, 3>>}
StartSamples == {0, 1}

----------------------------------------------------------------------------
(* The state machine *)

Init ==
    /\ \E seed \in {[given |-> FALSE, bytes |-> <<>>]}
                   \cup {[given |-> TRUE, bytes |-> s] : s \in SeedSamples} :
         /\ wseed = seed
         /\ wpos = WriterNew(seed).pos
         /\ wbuf = WriterNew(seed).buf
         /\ wlog = seed.bytes
    /\ wstatus = "none"
    /\ wstore = NoStore
    /\ whist = <<>>
    /\ out = [taken |-> FALSE, bytes |-> <<>>]
    /\ outHist = <<>>
    /\ ralive = FALSE
    /\ rbuf = <<>>
    /\ rpos = 0
    /\ rstart = 0
    /\ rstatus = "none"
    /\ rval = <<>>
    /\ rhist = <<>>
    /\ rsrc = [raw |-> FALSE, hist |-> <<>>]

\* the writer as a call finds it
WStart == [pos |-> wpos, buf |-> wbuf, id |-> 0, err |-> "none",
           store |-> wstore, log |-> wlog]

\* the writer as a call leaves it
WCommit(w, op, arg) ==
    /\ wpos' = w.pos
    /\ wbuf' = w.buf
    /\ wstatus' = IF w.err = "none" THEN "ok" ELSE w.err
    /\ wstore' = w.store
    /\ wlog' = w.log
    /\ whist' = Append(whist, [op |-> op, arg |-> arg, ok |-> w.err = "none",
                               from |-> wpos, to |-> w.pos])
    /\ UNCHANGED <<wseed, out, outHist, rvars>>

CanWrite == ~ralive /\ Len(whist) < MaxWrites
CanRun == ~ralive /\ wpos < MaxRun /\ \A i \in 1..Len(whist) : whist[i].op = "wu8"

Wu8 ==
    /\ CanWrite \/ CanRun
    /\ \E n \in ByteSamples : WCommit(wu8(WStart, n), "wu8", <<n>>)

Wu16 ==
    /\ CanWrite
    /\ \E n \in U16Samples : WCommit(wFixed(WStart, BigEndian(n, 2)), "wu16", <<n>>)

Wu32 ==
    /\ CanWrite
    /\ \E n \in U32Samples : WCommit(wFixed(WStart, BigEndian(n, 4)), "wu32", <<n>>)

Wu64 ==
    /\ CanWrite
    /\ WCommit(w64(WStart), "wu64", <<>>)

Wuv ==
    /\ CanWrite
    /\ \E n \in UVSamples : WCommit(wuv(WStart, n), "wuv", n)

Wiv ==
    /\ CanWrite
    /\ \E n \in IVSamples : WCommit(wiv(WStart, n), "wiv", <<n>>)

Wbytes ==
    /\ CanWrite
    /\ \E b \in RunSamples : WCommit(wbytes(WStart, b), "wbytes", b)

GetBuffer ==
    /\ ~ralive
    /\ out' = [taken |-> TRUE, bytes |-> getBuffer(wpos, wbuf)]
    /\ outHist' = whist
    /\ UNCHANGED <<wvars, rvars>>

\* new SerialReader(writer.getBuffer()), for a writer constructed empty
NewReaderOut ==
    /\ ~ralive /\ ~wseed.given
    /\ out.taken /\ outHist = whist /\ Len(whist) <= MaxSrcOps
    /\ ralive' = TRUE
    /\ rbuf' = ReaderNew(out.bytes, 0).buf
    /\ rpos' = ReaderNew(out.bytes, 0).pos
    /\ rstart' = 0
    /\ rsrc' = [raw |-> FALSE, hist |-> outHist]
    /\ UNCHANGED <<wvars, out, outHist, rstatus, rval, rhist>>

\* new SerialReader(buffer, pos) over a buffer from elsewhere
NewReaderRaw ==
    /\ ~ralive
    /\ ~wseed.given /\ whist = <<>> /\ ~out.taken
    /\ \E b \in RawSamples, p \in StartSamples :
         /\ rbuf' = ReaderNew(b, p).buf
         /\ rpos' = ReaderNew(b, p).pos
         /\ rstart' = p
    /\ ralive' = TRUE
    /\ rsrc' = [raw |-> TRUE, hist |-> <<>>]
    /\ UNCHANGED <<wvars, out, outHist, rstatus, rval, rhist>>

\* the reader as a call finds it
RStart == [pos |-> rpos, buf |-> rbuf, err |-> "none", val |-> <<>>, need |-> 0, len |-> 0]

\* the reader as a call leaves it
RCommit(rd, op) ==
    /\ rpos' = rd.pos
    /\ rstatus' = IF rd.err = "none" THEN "ok" ELSE rd.err
    /\ rval' = IF rd.err = "none" THEN rd.val ELSE <<>>
    /\ rhist' = Append(rhist, [op |-> op, ok |-> rd.err = "none", from |-> rpos,
                               to |-> rd.pos, need |-> rd.need, len |-> rd.len])
    /\ UNCHANGED <<wvars, out, outHist, ralive, rbuf, rstart, rsrc>>

CanRead == ralive /\ Len(rhist) < MaxReads

Ru8 == CanRead /\ RCommit(ru8(RStart), "ru8")
Ru16 == CanRead /\ RCommit(rFixed(RStart, 2), "ru16")
Ru64 == CanRead /\ RCommit(r64(RStart), "ru64")
Ruv == CanRead /\ RCommit(ruv(RStart), "ruv")
Riv == CanRead /\ RCommit(riv(RStart), "riv")
Rbytes == CanRead /\ RCommit(rbytes(RStart), "rbytes")
Rutf8 == CanRead /\ RCommit(rutf8(RStart), "rutf8")

Next ==
    \/ Wu8 \/ Wu16 \/ Wu32 \/ Wu64 \/ Wuv \/ Wiv \/ Wbytes
    \/ GetBuffer
    \/ NewReaderOut \/ NewReaderRaw
    \/ Ru8 \/ Ru16 \/ Ru64 \/ Ruv \/ Riv \/ Rbytes \/ Rutf8

Spec == Init /\ [][Next]_vars

----------------------------------------------------------------------------
(* Properties *)

\* the reader was built over the buffer a fresh writer extracted after the one
\* call wop, and has made the one call rop
RoundTrip(wop, rop) ==
    /\ ralive /\ ~rsrc.raw /\ ~wseed.given /\ rstart = 0
    /\ Len(rsrc.hist) = 1 /\ rsrc.hist[1].op = wop
    /\ Len(rhist) = 1 /\ rhist[1].op = rop

\* C1: unsigned varint round trip: wuv(n) on an empty writer, then ruv() over
\* the extracted buffer, returns exactly n, for every n in [0, 2^32 - 1].
C1_UnsignedVarintRoundTrip ==
    RoundTrip("wuv", "ruv") =>
        /\ rstatus = "ok"
        /\ rval[1] >= 0
        /\ OfNat(rval[1]) = rsrc.hist[1].arg

\* C2: growth correctness: N calls of wu8 on a writer constructed empty never
\* fail, and getBuffer() afterwards is exactly the N bytes written, in order.
C2_GrowthKeepsBytes ==
    (~wseed.given /\ \A i \in 1..Len(whist) : whist[i].op = "wu8") =>
        /\ \A i \in 1..Len(whist) : whist[i].ok
        /\ getBuffer(wpos, wbuf) = [i \in 1..Len(whist) |-> whist[i].arg[1]]

\* C3: signed varint round trip: wiv(n) on an empty writer, then riv() over the
\* extracted buffer, returns exactly n, for every n in [-2^31, 2^31 - 1].
C3_SignedVarintRoundTrip ==
    RoundTrip("wiv", "riv") =>
        /\ rstatus = "ok"
        /\ rval = rsrc.hist[1].arg

\* C4: byte-run round trip: wbytes(B) on an empty writer, then rbytes() over
\* the extracted buffer, returns a sequence identical to B and leaves the
\* reader's cursor at the end of the buffer.
C4_ByteRunRoundTrip ==
    RoundTrip("wbytes", "rbytes") =>
        /\ rstatus = "ok"
        /\ rval = rsrc.hist[1].arg
        /\ rpos = Len(rbuf)

\* C5: varint length: a wuv(n) that returns has appended exactly
\* max(1, ceil(bitlength(n) / 7)) bytes (one byte for n = 0).
C5_VarintLength ==
    \A i \in 1..Len(whist) :
        (whist[i].op = "wuv" /\ whist[i].ok) =>
            whist[i].to - whist[i].from = Max(1, (BitLength(whist[i].arg) + 6) \div 7)

\* the documented width of a writer call: 1/2/4/8 for the fixed-width integers,
\* the number of encoded bytes for a varint, prefix plus N for a byte run
WriteWidth(e) ==
    CASE e.op = "wu8" -> 1
      [] e.op = "wu16" -> 2
      [] e.op = "wu32" -> 4
      [] e.op = "wu64" -> 8
      [] e.op = "wuv" -> byteLength(e.arg)
      [] e.op = "wiv" -> byteLength(SignPack(e.arg[1]))
      [] e.op = "wbytes" -> byteLength(OfNat(Len(e.arg))) + Len(e.arg)

\* the number of bytes of the varint encoded in buf at offset p
RECURSIVE VarintSpan(_, _)
VarintSpan(buf, p) ==
    IF p < 0 \/ p >= Len(buf) THEN 0
    ELSE IF buf[p + 1] < 128 THEN 1
    ELSE 1 + VarintSpan(buf, p + 1)

\* the documented width of a reader call that completed
ReadWidth(e) ==
    CASE e.op = "ru8" -> 1
      [] e.op = "ru16" -> 2
      [] e.op = "ru64" -> 8
      [] e.op \in {"ruv", "riv"} -> VarintSpan(rbuf, e.from)
      [] e.op = "rbytes" -> VarintSpan(rbuf, e.from) + e.len
      [] OTHER -> 0

RECURSIVE SumWriteWidths(_)
SumWriteWidths(h) ==
    IF h = <<>> THEN 0 ELSE WriteWidth(h[1]) + SumWriteWidths(Tail(h))

RECURSIVE SumReadWidths(_)
SumReadWidths(h) ==
    IF h = <<>> THEN 0 ELSE ReadWidth(h[1]) + SumReadWidths(Tail(h))

\* the calls recorded in h start at pos0, each starts where the one before it
\* ended, and pos is where the last one ended
Contiguous(h, pos0, pos) ==
    /\ \A i \in 1..Len(h) : h[i].from = (IF i = 1 THEN pos0 ELSE h[i - 1].to)
    /\ pos = (IF h = <<>> THEN pos0 ELSE h[Len(h)].to)

C7_SeededWriterAppends ==
    wseed.given =>
        /\ whist = <<>> => wpos = Len(wseed.bytes)
        /\ \A i \in 1..Len(whist) : whist[i].ok
        /\ getBuffer(wpos, wbuf) = wlog

\* C8: out-of-bounds reads fail: a reader call that would consume bytes past
\* the end of the buffer ends in an error, and rbytes never returns a run
\* shorter than its decoded length prefix.
C8_OutOfBoundsReadsFail ==
    /\ \A i \in 1..Len(rhist) :
         rhist[i].from + rhist[i].need > Len(rbuf) => ~rhist[i].ok
    /\ (rhist # <<>> /\ rhist[Len(rhist)].op = "rbytes" /\ rhist[Len(rhist)].ok
        /\ rhist[Len(rhist)].len >= 0)
       => Len(rval) = rhist[Len(rhist)].len

\* what C9 says of a state: an extraction not yet followed by a write is exactly
\* the pos bytes [0, pos) of the backing store, and an earlier extraction is
\* still a prefix of them
ExtractionInv ==
    /\ (out.taken /\ outHist = whist) => Len(out.bytes) = wpos
    /\ out.taken =>
         /\ Len(out.bytes) <= wpos
         /\ \A i \in 1..Len(out.bytes) : i <= Len(wbuf) /\ wbuf[i] = out.bytes[i]

\* C9: extraction is a pure observation: getBuffer() returns exactly the pos
\* bytes [0, pos) of the backing store, a step that is not a write (an
\* extraction among them) leaves pos, the capacity and the store unchanged, and
\* writes made after an extraction append after the bytes already extracted.
C9_ExtractionIsPure ==
    /\ []ExtractionInv
    /\ [][whist' = whist => (wpos' = wpos /\ wbuf' = wbuf)]_vars

\* a write after a non-empty extraction that has also made the store grow
C9_Witness ==
    /\ out.taken /\ Len(out.bytes) > 0
    /\ outHist # whist /\ wpos > Len(out.bytes)
    /\ Len(wbuf) > InitialCapacity

\* C10: writer capacity invariant: pos <= capacity in every state, and the
\* store that receives the bytes of a write at [p, p + w) is the writer's
\* backing store after growth, with capacity at least p + w.
C10_StoreGoesToGrownStore ==
    /\ wpos <= Len(wbuf)
    /\ wstore.width > 0 =>
         /\ wstore.current
         /\ wstore.cap >= wstore.off + wstore.width

====
